---- MODULE Spec2Model ----
(***************************************************************************)
(* RouterX gateway: the chat-completion request path                       *)
(*   WithAPIKey -> Server.ChatCompletions -> Limiter -> Router.Route ->    *)
(*   Router.tryProvider -> provider.Chat -> accounting -> Limiter.Release  *)
(* and the per-provider circuit breaker (CircuitState.Allow / Record).     *)
(*                                                                         *)
(* Money is counted in units of 1e-7 USD and prices in units of 1e-4 USD   *)
(* per 1K tokens, so that cost = price * tokens / 1000 (USD) is the        *)
(* integer price * tokens.                                                 *)
(***************************************************************************)
EXTENDS Integers, Sequences, FiniteSets, TLC

VARIABLES
    balance,     \* Store: tenants.balance_usd
    totalSpent,  \* Store: tenants.total_spent_usd
    txs,         \* Store: balance_transactions, in insertion order
    logs,        \* Store: request_logs, in insertion order
    usage,       \* Store: usage_daily, per provider
    conc,        \* Cache: the key conc:<tenant>
    qps,         \* Cache: the key qps:<tenant>:<current second>
    health,      \* Cache: the key provider_health:<provider>
    circuits,    \* Router.Circuits
    now,         \* wall clock, seconds
    req,         \* one record per in-flight HTTP request
    caller,      \* one record per goroutine running Router.tryProvider
    probe,       \* history of each circuit: records made, last opening
    sse,         \* one adapter stream handler: upstream body, frames sent
    lim,         \* the Limiter under load: its callers and their counts
    call         \* one call of a function: its arguments and its result

vars == <<balance, totalSpent, txs, logs, usage, conc, qps, health,
          circuits, now, req, caller, probe, sse, lim, call>>

----------------------------------------------------------------------------
(* Bounds of the model *)

MaxChunks == 1      \* data chunks an upstream stream carries
MaxRecords == 11    \* Record calls per circuit in SpecCircuit
MaxTicks == 3       \* clock ticks in SpecCircuit

(* Program constants *)

QPS == 10
Conc == 5
WindowSize == 20
MinSamples == 10
ThresholdNum == 1
ThresholdDen == 2
Cooldown == 30
DummyTokens == 25
FallbackPrice == 20

TickStep == Cooldown \div 2

----------------------------------------------------------------------------
(* The Store's configuration rows: tenants, keys, providers, catalog,      *)
(* routing rules and prices.                                               *)

Reqs == {"r1", "r2"}
Callers == {"g1", "g2"}
Tenants == {"t1", "t2"}
Keys == {"k1", "k2", "k3"}
Models == {"m1", "m2"}
Providers == {"pA", "pB", "pC"}
CircuitProviders == {"pA"}

InitBalance == [t \in Tenants |-> 500]
TenantSuspended == [t \in Tenants |-> t = "t2"]
TenantSpendLimit == [t \in Tenants |-> 300]

KeyTenant == [k \in Keys |-> IF k = "k3" THEN "t2" ELSE "t1"]
AllowedModels == [k \in Keys |-> IF k = "k1" THEN {"m1"} ELSE {}]

ProviderRow ==
    [p \in Providers |->
        CASE p = "pA" -> [Type |-> "openai", SupportsText |-> TRUE,
                          SupportsVision |-> TRUE, Enabled |-> TRUE]
          [] p = "pB" -> [Type |-> "openai", SupportsText |-> TRUE,
                          SupportsVision |-> FALSE, Enabled |-> TRUE]
          [] OTHER    -> [Type |-> "anthropic", SupportsText |-> TRUE,
                          SupportsVision |-> TRUE, Enabled |-> TRUE]]

ModelCatalog == [m \in {"m1"} |-> "openai"]

RoutingRules ==
    [t \in Tenants |->
        [text   |-> [PrimaryProviderID |-> "pC", SecondaryProviderID |-> ""],
         vision |-> [PrimaryProviderID |-> "pC", SecondaryProviderID |-> "pB"]]]

ModelPricing == [m \in {"m1"} |-> 15]

\* router.ModelPricingUSDPer1K: the built-in price table (one of its rows)
ModelPricingUSDPer1K == [m \in {"gpt-4o"} |-> 50]

(* Message contents a request may carry: a list of parts.                  *)
TextPart == [Type |-> "text", ImageURL |-> ""]
ImagePart == [Type |-> "image_url", ImageURL |-> "u"]
EmptyImagePart == [Type |-> "image_url", ImageURL |-> ""]
Contents == {<<TextPart, EmptyImagePart>>, <<TextPart, ImagePart>>}

----------------------------------------------------------------------------
(* Pure functions *)

\* models.ContentHasImage / router.requestHasImage
ContentHasImage(parts) ==
    \E i \in DOMAIN parts :
        parts[i].Type = "image_url" /\ parts[i].ImageURL # ""

requestHasImage(content) == ContentHasImage(content)

\* api.contains
contains(list, item) == item \in list

\* router.EstimateCostUSD: the built-in table, then the fixed price
EstimateCostUSD(model, tokens) ==
    (IF model \in DOMAIN ModelPricingUSDPer1K
     THEN ModelPricingUSDPer1K[model]
     ELSE FallbackPrice) * tokens

\* Server.ChatCompletions: the cost of a request; storeOK is whether the
\* price query could run
CostOf(model, tokens, storeOK) ==
    IF tokens > 0
    THEN IF storeOK /\ model \in DOMAIN ModelPricing
         THEN ModelPricing[model] * tokens
         ELSE EstimateCostUSD(model, tokens)
    ELSE 0

RECURSIVE CountFalse(_)
CountFalse(s) ==
    IF s = <<>> THEN 0
    ELSE (IF Head(s) THEN 0 ELSE 1) + CountFalse(Tail(s))

\* CircuitState.Allow at time t
CircuitState_Allow(c, t) == ~(t < c.OpenUntil)

\* A Record that opens the circuit only above the threshold, not at it
RecordStrictThreshold(c, ok, t) ==
    LET appended == Append(c.Samples, ok)
        window == IF Len(appended) > WindowSize
                  THEN SubSeq(appended, Len(appended) - WindowSize + 1, Len(appended))
                  ELSE appended
        fail == CountFalse(window)
    IN [Samples |-> window,
        OpenUntil |-> IF Len(window) >= MinSamples
                         /\ fail * ThresholdDen > ThresholdNum * Len(window)
                      THEN t + Cooldown
                      ELSE c.OpenUntil]

\* A Record that drops the newest sample of an overfull window
RecordKeepingOldest(c, ok, t) ==
    LET appended == Append(c.Samples, ok)
        window == IF Len(appended) > WindowSize
                  THEN SubSeq(appended, 1, WindowSize)
                  ELSE appended
        fail == CountFalse(window)
    IN [Samples |-> window,
        OpenUntil |-> IF Len(window) >= MinSamples
                         /\ fail * ThresholdDen >= ThresholdNum * Len(window)
                      THEN t + Cooldown
                      ELSE c.OpenUntil]

\* CircuitState.Record(ok) at time t
CircuitState_Record(c, ok, t) ==
    LET appended == Append(c.Samples, ok)
        window == IF Len(appended) > WindowSize
                  THEN SubSeq(appended, Len(appended) - WindowSize + 1, Len(appended))
                  ELSE appended
        fail == CountFalse(window)
    IN [Samples |-> window,
        OpenUntil |-> IF Len(window) >= MinSamples
                         /\ fail * ThresholdDen >= ThresholdNum * Len(window)
                      THEN t + Cooldown
                      ELSE c.OpenUntil]

\* Router.circuitFor: the state a provider's circuit is created with
NewCircuit == [Samples |-> <<>>, OpenUntil |-> 0]

\* The checks of tryProvider without the one on vision
RefusalIgnoringVision(p, content) ==
    IF ~ProviderRow[p].Enabled THEN "provider disabled"
    ELSE IF ~requestHasImage(content) /\ ~ProviderRow[p].SupportsText
         THEN "provider lacks text"
         ELSE ""

\* Router.tryProvider, the checks made before the circuit is consulted:
\* "" when the provider may be tried, else the error
tryProviderRefusal(p, content) ==
    IF ~ProviderRow[p].Enabled THEN "provider disabled"
    ELSE IF requestHasImage(content) /\ ~ProviderRow[p].SupportsVision
         THEN "provider lacks vision"
         ELSE IF ~requestHasImage(content) /\ ~ProviderRow[p].SupportsText
              THEN "provider lacks text"
              ELSE ""

\* Router.Route: capability of a request
Capability(content) == IF requestHasImage(content) THEN "vision" ELSE "text"

\* Store.GetEnabledProvidersByType filtered by capability in
\* Router.tryProvidersByType
FamilyCandidates(providerType, capability) ==
    {p \in Providers :
        /\ ProviderRow[p].Type = providerType
        /\ ProviderRow[p].Enabled
        /\ (capability = "vision" => ProviderRow[p].SupportsVision)
        /\ (capability = "text" => ProviderRow[p].SupportsText)}

\* The orders in which the query (no ORDER BY) may return a set of rows
Orders(S) ==
    {s \in [1..Cardinality(S) -> S] : \A i, j \in DOMAIN s : i # j => s[i] # s[j]}

----------------------------------------------------------------------------
(* Cache (Redis) commands on the key conc:<tenant> *)

\* INCR: a missing key counts from 0 and gets no TTL; a TTL is kept
RedisIncr(k) ==
    IF k.present THEN [k EXCEPT !.val = @ + 1]
    ELSE [val |-> 1, present |-> TRUE, ttl |-> FALSE]

\* DECR
RedisDecr(k) ==
    IF k.present THEN [k EXCEPT !.val = @ - 1]
    ELSE [val |-> -1, present |-> TRUE, ttl |-> FALSE]

\* EXPIRE: acts on an existing key only
RedisExpire(k) == IF k.present THEN [k EXCEPT !.ttl = TRUE] ELSE k

AbsentKey == [val |-> 0, present |-> FALSE, ttl |-> FALSE]

----------------------------------------------------------------------------
(* State after construction (main) *)

NewRequest ==
    [pc |-> "idle", key |-> "", tenant |-> "", BalanceUSD |-> 0,
     TotalSpentUSD |-> 0, allowFallbacks |-> "",
     model |-> "", content |-> <<>>, stream |-> FALSE,
     disconnected |-> FALSE, val |-> 0,
     acquired |-> FALSE, decrs |-> 0,
     ruleOK |-> FALSE, stage |-> "", cands |-> <<>>, idx |-> 0, chunks |-> 0,
     providerName |-> "", fallbackUsed |-> FALSE, tokens |-> 0,
     routeErr |-> FALSE, status |-> 0,
     dispatched |-> <<>>, sendErrAt |-> 0, clientErrAt |-> 0, dataAt |-> 0,
     wrote |-> <<>>]

NewCaller == [pc |-> "idle", p |-> "pA", allowedAt |-> 0]

NewProbe == [nrec |-> 0, openedAt |-> -1, sinceOpen |-> 0]

\* No stream handler is running; the Limiter has no caller
NoStream == [handler |-> "", body |-> <<>>, pos |-> 0, frames |-> <<>>,
             returned |-> FALSE, err |-> FALSE]
NoLimiter == [clients |-> <<>>, stamped |-> <<>>, keys |-> <<>>, passed |-> <<>>]
NoCall == [fn |-> ""]

Init ==
    /\ balance = InitBalance
    /\ totalSpent = [t \in Tenants |-> 0]
    /\ txs = <<>>
    /\ logs = <<>>
    /\ usage = [p \in Providers |-> [tokens |-> 0, cost |-> 0]]
    /\ conc = [t \in Tenants |-> AbsentKey]
    /\ qps = [t \in Tenants |-> 0]
    /\ health = [p \in Providers |-> "none"]
    /\ circuits = [p \in Providers |-> NewCircuit]
    /\ now = 0
    /\ req = [r \in Reqs |-> NewRequest]
    /\ caller = [c \in Callers |-> NewCaller]
    /\ probe = [p \in Providers |-> NewProbe]
    /\ sse = NoStream
    /\ lim = NoLimiter
    /\ call = NoCall

storeVars == <<balance, totalSpent, txs, logs, usage>>
circuitSpecVars == <<caller, probe>>
componentVars == <<sse, lim, call>>
mainVars == <<storeVars, conc, qps, health, req>>

\* The handler has returned: its locals are gone. What is kept is what the
\* request did to the concurrency counter.
Returned(q) ==
    [NewRequest EXCEPT !.pc = "done", !.acquired = q.acquired, !.decrs = q.decrs]

\* The handler returns before Acquire: http.Error and return
Reject(r, code) ==
    req' = [req EXCEPT ![r] = [Returned(req[r]) EXCEPT !.status = code]]

----------------------------------------------------------------------------
(* middleware.WithAPIKey: the tenant row is read once, here *)

\* allowFallbacks is the value of the request's X-RouterX-Allow-Fallbacks
\* header ("" when absent); no handler reads it
AuthWith(r, headers) ==
    /\ req[r].pc = "idle"
    /\ \E k \in Keys, h \in headers :
         req' = [req EXCEPT ![r].pc = "admit",
                            ![r].key = k,
                            ![r].allowFallbacks = h,
                            ![r].tenant = KeyTenant[k],
                            ![r].BalanceUSD = balance[KeyTenant[k]],
                            ![r].TotalSpentUSD = totalSpent[KeyTenant[k]]]
    /\ UNCHANGED <<storeVars, conc, qps, health, circuits, now, circuitSpecVars, componentVars>>

Auth(r) == AuthWith(r, {""})

\* The client closes the connection: the request context is cancelled, and
\* every later write to the client fails
Disconnect(r) ==
    /\ req[r].pc \notin {"idle", "done"}
    /\ ~req[r].disconnected
    /\ req' = [req EXCEPT ![r].disconnected = TRUE]
    /\ UNCHANGED <<storeVars, conc, qps, health, circuits, now, circuitSpecVars, componentVars>>

\* A handler that calls Limiter.Allow before it looks at the suspension
AdmitCountingFirst(r) ==
    /\ req[r].pc = "admit"
    /\ LET t == req[r].tenant IN
       IF req[r].disconnected
       THEN Reject(r, 429) /\ UNCHANGED qps
       ELSE /\ qps' = [qps EXCEPT ![t] = @ + 1]
            /\ IF qps[t] + 1 > QPS
               THEN Reject(r, 429)
               ELSE IF TenantSuspended[t]
                    THEN Reject(r, 403)
                    ELSE req' = [req EXCEPT ![r].pc = "acquire"]
    /\ UNCHANGED <<storeVars, conc, health, circuits, now, circuitSpecVars, componentVars>>

\* Server.ChatCompletions: suspension, then Limiter.Allow
Admit(r) ==
    /\ req[r].pc = "admit"
    /\ LET t == req[r].tenant IN
       IF TenantSuspended[t]
       THEN Reject(r, 403) /\ UNCHANGED qps
       ELSE IF req[r].disconnected
            THEN Reject(r, 429) /\ UNCHANGED qps
            ELSE /\ qps' = [qps EXCEPT ![t] = @ + 1]
                 /\ IF qps[t] + 1 > QPS
                    THEN Reject(r, 429)
                    ELSE req' = [req EXCEPT ![r].pc = "acquire"]
    /\ UNCHANGED <<storeVars, conc, health, circuits, now, circuitSpecVars, componentVars>>

\* Limiter.Acquire: the INCR
AcquireIncr(r) ==
    /\ req[r].pc = "acquire"
    /\ LET t == req[r].tenant
           k == RedisIncr(conc[t])
       IN IF req[r].disconnected
          THEN Reject(r, 429) /\ UNCHANGED conc
          ELSE /\ conc' = [conc EXCEPT ![t] = k]
               /\ IF k.val = 1 \/ k.val > Conc
                  THEN req' = [req EXCEPT ![r].pc = "acquired1", ![r].val = k.val]
                  ELSE req' = [req EXCEPT ![r].pc = "validate", ![r].acquired = TRUE]
    /\ UNCHANGED <<storeVars, qps, health, circuits, now, circuitSpecVars, componentVars>>

\* Limiter.Acquire: the EXPIRE after the first increment, the DECR of a
\* rejected one. A command on a cancelled context is not sent.
AcquireFinish(r) ==
    /\ req[r].pc = "acquired1"
    /\ LET t == req[r].tenant
           k1 == IF req[r].val = 1 /\ ~req[r].disconnected
                 THEN RedisExpire(conc[t]) ELSE conc[t]
           k2 == IF req[r].val > Conc /\ ~req[r].disconnected
                 THEN RedisDecr(k1) ELSE k1
       IN /\ conc' = [conc EXCEPT ![t] = k2]
          /\ IF req[r].val > Conc
             THEN Reject(r, 429)
             ELSE req' = [req EXCEPT ![r].pc = "validate", ![r].val = 0,
                                     ![r].acquired = TRUE]
    /\ UNCHANGED <<storeVars, qps, health, circuits, now, circuitSpecVars, componentVars>>

\* The 60 s TTL of conc:<tenant> runs out. Not a step of Spec, whose
\* requests end before the TTL does.
ExpireConc(t) ==
    /\ conc[t].present /\ conc[t].ttl
    /\ conc' = [conc EXCEPT ![t] = AbsentKey]
    /\ UNCHANGED <<storeVars, qps, health, circuits, now, req, circuitSpecVars, componentVars>>

\* Limiter.Release, deferred by the handler
Release(r) ==
    /\ req[r].pc = "release"
    /\ LET t == req[r].tenant IN
       IF req[r].disconnected
       THEN /\ req' = [req EXCEPT ![r] = Returned(req[r])]
            /\ UNCHANGED conc
       ELSE /\ conc' = [conc EXCEPT ![t] = RedisDecr(@)]
            /\ req' = [req EXCEPT ![r] = Returned([req[r] EXCEPT !.decrs = @ + 1])]
    /\ UNCHANGED <<storeVars, qps, health, circuits, now, circuitSpecVars, componentVars>>

----------------------------------------------------------------------------
(* Server.ChatCompletions after Acquire: decode, allow-list, balance *)

Bodies == [bad : BOOLEAN, model : Models, content : Contents, stream : BOOLEAN]

\* The handler returns after Acquire: the deferred Release still runs
Exit(q, code) ==
    [NewRequest EXCEPT !.pc = "release", !.tenant = q.tenant,
                       !.disconnected = q.disconnected, !.acquired = q.acquired,
                       !.status = code]

\* A balance check that lets a balance of exactly zero pass
BalanceBelowZero(b) == b < 0

\* Server.ChatCompletions: the balance check on the tenant row
InsufficientBalance(b) == b <= 0

Validate(r) ==
    /\ req[r].pc = "validate"
    /\ \E b \in Bodies, lookupErr \in BOOLEAN, flusherOK \in BOOLEAN :
         LET q == req[r]
             keyErr == lookupErr \/ q.disconnected
             decoded == [q EXCEPT !.model = b.model, !.content = b.content,
                                  !.stream = b.stream]
         IN req' = [req EXCEPT ![r] =
              IF b.bad THEN Exit(q, 400)
              ELSE IF ~keyErr /\ AllowedModels[q.key] # {}
                      /\ ~contains(AllowedModels[q.key], b.model)
                   THEN Exit(q, 403)
                   ELSE IF InsufficientBalance(q.BalanceUSD) THEN Exit(q, 402)
                   ELSE IF b.stream /\ ~flusherOK THEN Exit(q, 500)
                   ELSE [decoded EXCEPT !.pc = "route"]]
    /\ UNCHANGED <<storeVars, conc, qps, health, circuits, now, circuitSpecVars, componentVars>>

----------------------------------------------------------------------------
(* Router.Route *)

Rule(q) == RoutingRules[q.tenant][Capability(q.content)]

\* Route has returned: its locals are gone
RouteReturned(q) ==
    [q EXCEPT !.pc = "account", !.ruleOK = FALSE, !.stage = "", !.cands = <<>>,
              !.idx = 0, !.chunks = 0]

\* A Route that reported the tokens of a failed attempt with its error
FailedKeepingTokens(q) ==
    [RouteReturned(q) EXCEPT !.providerName = "", !.fallbackUsed = FALSE,
                             !.tokens = DummyTokens, !.routeErr = TRUE,
                             !.status = 502, !.wrote = Append(@, "error")]

\* Route's last step: every attempt failed, and the handler answers with
\* writeError, for a streamed request too
Failed(q) ==
    [RouteReturned(q) EXCEPT !.providerName = "", !.fallbackUsed = FALSE,
                             !.tokens = 0, !.routeErr = TRUE, !.status = 502,
                             !.wrote = Append(@, "error")]

\* Route, step 4: the tenant's routing rule, when it was read
EnterRule(q) ==
    IF q.ruleOK THEN [q EXCEPT !.pc = "try", !.stage = "primary"] ELSE Failed(q)

\* The attempt on the current candidate returned an error
Advance(q) ==
    CASE q.stage = "catalog" ->
            IF q.idx < Len(q.cands)
            THEN [q EXCEPT !.pc = "try", !.idx = @ + 1]
            ELSE EnterRule(q)
      [] q.stage = "primary" ->
            IF Rule(q).SecondaryProviderID # ""
            THEN [q EXCEPT !.pc = "try", !.stage = "secondary"]
            ELSE Failed(q)
      [] OTHER -> Failed(q)

\* The attempt on the current candidate succeeded
Succeeded(q, p, tokens) ==
    [RouteReturned(q) EXCEPT
              !.providerName = p, !.tokens = tokens, !.status = 200,
              !.fallbackUsed = CASE q.stage = "catalog" -> q.idx - 1 > 0
                                 [] q.stage = "primary" -> FALSE
                                 [] OTHER -> TRUE]

CurrentProvider(q) ==
    CASE q.stage = "catalog" -> q.cands[q.idx]
      [] q.stage = "primary" -> Rule(q).PrimaryProviderID
      [] OTHER -> Rule(q).SecondaryProviderID

\* Route, steps 1-3: rule and catalog lookups, the family's candidates
RouteBegin(r) ==
    /\ req[r].pc = "route"
    /\ LET storeOK == ~req[r].disconnected
           q == [req[r] EXCEPT !.ruleOK = storeOK]
           catalogOK == storeOK /\ q.model \in DOMAIN ModelCatalog
           family == IF catalogOK
                     THEN FamilyCandidates(ModelCatalog[q.model], Capability(q.content))
                     ELSE {}
       IN IF family = {}
          THEN req' = [req EXCEPT ![r] = EnterRule(q)]
          ELSE \E order \in Orders(family) :
                 req' = [req EXCEPT ![r] = [q EXCEPT !.pc = "try", !.stage = "catalog",
                                                     !.cands = order, !.idx = 1]]
    /\ UNCHANGED <<storeVars, conc, qps, health, circuits, now, circuitSpecVars, componentVars>>

\* Router.tryProvider up to circuit.Allow (for a rule's provider, after
\* Store.GetProviderByID)
TryProvider(r) ==
    /\ req[r].pc = "try"
    /\ LET q == req[r]
           p == CurrentProvider(q)
       IN req' = [req EXCEPT ![r] =
            IF q.stage # "catalog" /\ q.disconnected THEN Failed(q)
            ELSE IF tryProviderRefusal(p, q.content) # ""
                 THEN Advance(q)
                 ELSE IF ~CircuitState_Allow(circuits[p], now) THEN Advance(q)
                 ELSE [q EXCEPT !.pc = "chat"]]
    /\ UNCHANGED <<storeVars, conc, qps, health, circuits, now, circuitSpecVars, componentVars>>

\* tryProvider after provider.Chat returned: circuit.Record and the health key
Recorded(r, p, ok) ==
    /\ circuits' = [circuits EXCEPT ![p] = CircuitState_Record(@, ok, now)]
    /\ health' = IF req[r].disconnected THEN health
                 ELSE [health EXCEPT ![p] = IF ok THEN "ok" ELSE "fail"]

\* What an upstream call returns: an HTTP 4xx status (-4), another error
\* (-1: transport error, HTTP 5xx, body decode failure) or a token count
UpstreamErrors == {-4, -1}
ChatOutcomes == {-1, 0, DummyTokens}

\* provider.Chat returned the error out: the attempt failed like any other
Errored(q, out) ==
    Advance([q EXCEPT !.clientErrAt =
                IF out = -4 /\ @ = 0 THEN Len(q.dispatched) ELSE @])

\* provider.Chat is called: the request is dispatched to the adapter, whose
\* upstream answers with one of outs (for a stream, 0: the stream is open)
ChatWith(r, outs) ==
    /\ req[r].pc = "chat"
    /\ LET p == CurrentProvider(req[r])
           q == [req[r] EXCEPT !.dispatched = Append(@, p)]
       IN IF q.stream
          THEN \E up \in {o \in outs : o <= 0} :
                 IF up = 0
                 THEN /\ req' = [req EXCEPT ![r] = [q EXCEPT !.pc = "stream", !.chunks = 0]]
                      /\ UNCHANGED <<circuits, health>>
                 ELSE /\ req' = [req EXCEPT ![r] = Errored(q, up)]
                      /\ Recorded(r, p, FALSE)
          ELSE \E out \in outs :
                 /\ req' = [req EXCEPT ![r] =
                        IF out < 0 THEN Errored(q, out) ELSE Succeeded(q, p, out)]
                 /\ Recorded(r, p, out >= 0)
    /\ UNCHANGED <<storeVars, conc, qps, now, circuitSpecVars, componentVars>>

Chat(r) == ChatWith(r, ChatOutcomes)

\* The adapter forwards one data chunk of the at most max chunks of the
\* upstream stream through the sender
StreamChunkWith(r, max) ==
    /\ req[r].pc = "stream"
    /\ req[r].chunks < max
    /\ LET q == req[r]
           p == CurrentProvider(q)
       IN IF q.disconnected
          THEN /\ req' = [req EXCEPT ![r] =
                     Advance([q EXCEPT !.sendErrAt =
                                 IF @ = 0 THEN Len(q.dispatched) ELSE @])]
               /\ Recorded(r, p, FALSE)
          ELSE /\ req' = [req EXCEPT ![r].chunks = @ + 1,
                                     ![r].wrote = Append(@, "data"),
                                     ![r].dataAt =
                                         IF @ = 0 THEN Len(q.dispatched) ELSE @]
               /\ UNCHANGED <<circuits, health>>
    /\ UNCHANGED <<storeVars, conc, qps, now, circuitSpecVars, componentVars>>

StreamChunk(r) == StreamChunkWith(r, MaxChunks)

\* The upstream stream ends: [DONE] is sent and the adapter returns
StreamEnd(r) ==
    /\ req[r].pc = "stream"
    /\ LET q == req[r]
           p == CurrentProvider(q)
       IN /\ req' = [req EXCEPT ![r] =
                 Succeeded([q EXCEPT !.wrote = Append(@, "[DONE]")], p, DummyTokens)]
          /\ Recorded(r, p, TRUE)
    /\ UNCHANGED <<storeVars, conc, qps, now, circuitSpecVars, componentVars>>

----------------------------------------------------------------------------
(* Server.ChatCompletions after Route: request log and billing *)

Account(r) ==
    /\ req[r].pc = "account"
    /\ LET q == req[r]
           t == q.tenant
           storeOK == ~q.disconnected
           cost == CostOf(q.model, q.tokens, storeOK)
           billed == storeOK /\ q.status = 200 /\ q.tokens > 0 /\ cost > 0
           newBalance == q.BalanceUSD - cost
       IN /\ req' = [req EXCEPT ![r] =
                 [NewRequest EXCEPT !.pc = "release", !.tenant = q.tenant,
                                    !.disconnected = q.disconnected,
                                    !.acquired = q.acquired]]
          /\ logs' = IF storeOK
                     THEN Append(logs, [req |-> r, tenant |-> t,
                                        provider |-> q.providerName, model |-> q.model,
                                        tokens |-> q.tokens, cost |-> cost,
                                        fallback |-> q.fallbackUsed, status |-> q.status])
                     ELSE logs
          /\ usage' = IF billed
                      THEN [usage EXCEPT ![q.providerName] =
                               [tokens |-> @.tokens + q.tokens, cost |-> @.cost + cost]]
                      ELSE usage
          /\ totalSpent' = IF billed THEN [totalSpent EXCEPT ![t] = @ + cost]
                           ELSE totalSpent
          /\ balance' = IF billed THEN [balance EXCEPT ![t] = newBalance] ELSE balance
          /\ txs' = IF billed
                    THEN Append(txs, [req |-> r, tenant |-> t, type |-> "charge",
                                      amount |-> -cost, balanceAfter |-> newBalance,
                                      provider |-> q.providerName,
                                      stored |-> balance[t]])
                    ELSE txs
    /\ UNCHANGED <<conc, qps, health, circuits, now, circuitSpecVars, componentVars>>

----------------------------------------------------------------------------

Next ==
    \/ \E r \in Reqs :
         \/ Auth(r)
         \/ Disconnect(r)
         \/ Admit(r)
         \/ AcquireIncr(r)
         \/ AcquireFinish(r)
         \/ Validate(r)
         \/ RouteBegin(r)
         \/ TryProvider(r)
         \/ Chat(r)
         \/ StreamChunk(r)
         \/ StreamEnd(r)
         \/ Account(r)
         \/ Release(r)

Spec == Init /\ [][Next]_vars

----------------------------------------------------------------------------
(* One request in detail: the request r1 arrives at a gateway whose Store  *)
(* may hold the charge of an earlier request, and its upstreams answer     *)
(* with every kind of error.                                               *)

DetailedReqs == {"r1"}

\* The models of the requests billed before r1 arrives, DummyTokens each
PriorCharges == {<<>>, <<"m1">>, <<"m2">>}

\* Server.ChatCompletions, billing: the Store after the charges of h
PriorCost(h) == IF h = <<>> THEN 0 ELSE CostOf(h[1], DummyTokens, TRUE)
PriorProvider(h) == IF h[1] \in DOMAIN ModelCatalog THEN "pA" ELSE "pC"

InitRequest ==
    /\ \E h \in PriorCharges :
         LET cost == PriorCost(h)
             t == "t1"
         IN /\ balance = [InitBalance EXCEPT ![t] = @ - cost]
            /\ totalSpent = [u \in Tenants |-> IF u = t THEN cost ELSE 0]
            /\ txs = IF h = <<>> THEN <<>>
                     ELSE << [req |-> "r0", tenant |-> t, type |-> "charge",
                              amount |-> -cost, balanceAfter |-> InitBalance[t] - cost,
                              provider |-> PriorProvider(h), stored |-> InitBalance[t]] >>
            /\ logs = IF h = <<>> THEN <<>>
                      ELSE << [req |-> "r0", tenant |-> t, provider |-> PriorProvider(h),
                               model |-> h[1], tokens |-> DummyTokens, cost |-> cost,
                               fallback |-> FALSE, status |-> 200] >>
            /\ usage = [p \in Providers |->
                          IF h # <<>> /\ p = PriorProvider(h)
                          THEN [tokens |-> DummyTokens, cost |-> cost]
                          ELSE [tokens |-> 0, cost |-> 0]]
    /\ conc = [t \in Tenants |-> AbsentKey]
    /\ qps = [t \in Tenants |-> 0]
    /\ health = [p \in Providers |-> "none"]
    /\ circuits = [p \in Providers |-> NewCircuit]
    /\ now = 0
    /\ req = [r \in Reqs |-> NewRequest]
    /\ caller = [c \in Callers |-> NewCaller]
    /\ probe = [p \in Providers |-> NewProbe]
    /\ sse = NoStream
    /\ lim = NoLimiter
    /\ call = NoCall

ChatDetailed(r) == ChatWith(r, ChatOutcomes \cup UpstreamErrors)

AllowFallbacksHeaders == {"", "false"}

AuthDetailed(r) == AuthWith(r, AllowFallbacksHeaders)

\* The chunks of a stream in SpecRequest
MaxDetailedChunks == 2

StreamChunkDetailed(r) == StreamChunkWith(r, MaxDetailedChunks)

NextRequest ==
    \E r \in DetailedReqs :
        \/ AuthDetailed(r)
        \/ Disconnect(r)
        \/ Admit(r)
        \/ AcquireIncr(r)
        \/ AcquireFinish(r)
        \/ Validate(r)
        \/ RouteBegin(r)
        \/ TryProvider(r)
        \/ ChatDetailed(r)
        \/ StreamChunkDetailed(r)
        \/ StreamEnd(r)
        \/ Account(r)
        \/ Release(r)

SpecRequest == InitRequest /\ [][NextRequest]_vars

----------------------------------------------------------------------------
(* Sequential requests of one tenant: the second request arrives after the *)
(* handler of the first has returned.                                      *)

First == "r1"
Second == "r2"
SequentialTenant == "t1"

\* The client sends r when its earlier request has been answered
Turn(r) == r = First \/ req[First].pc = "done"

AuthInTurn(r) == Turn(r) /\ Auth(r)

NextSequential ==
    \E r \in Reqs :
        \/ AuthInTurn(r)
        \/ Disconnect(r)
        \/ Admit(r)
        \/ AcquireIncr(r)
        \/ AcquireFinish(r)
        \/ Validate(r)
        \/ RouteBegin(r)
        \/ TryProvider(r)
        \/ Chat(r)
        \/ StreamChunk(r)
        \/ StreamEnd(r)
        \/ Account(r)
        \/ Release(r)

SpecSequential == InitRequest /\ [][NextSequential]_vars

----------------------------------------------------------------------------
(* The cost of a request: Server.ChatCompletions prices the tokens Route   *)
(* returned for a model, with a price query that succeeds or fails.        *)

MaxTokens == 20

PricedModels == Models \cup DOMAIN ModelPricingUSDPer1K

InitPrice ==
    /\ call \in [fn : {"cost"}, model : PricedModels, tokens : 0..MaxTokens,
                 err : BOOLEAN, cost : {-1}]
    /\ sse = NoStream
    /\ lim = NoLimiter
    /\ balance = InitBalance
    /\ totalSpent = [t \in Tenants |-> 0]
    /\ txs = <<>>
    /\ logs = <<>>
    /\ usage = [p \in Providers |-> [tokens |-> 0, cost |-> 0]]
    /\ conc = [t \in Tenants |-> AbsentKey]
    /\ qps = [t \in Tenants |-> 0]
    /\ health = [p \in Providers |-> "none"]
    /\ circuits = [p \in Providers |-> NewCircuit]
    /\ now = 0
    /\ req = [r \in Reqs |-> NewRequest]
    /\ caller = [c \in Callers |-> NewCaller]
    /\ probe = [p \in Providers |-> NewProbe]

\* Server.ChatCompletions: cost := ...
PriceRequest ==
    /\ call.fn = "cost"
    /\ call.cost = -1
    /\ call' = [call EXCEPT !.cost = CostOf(call.model, call.tokens, ~call.err)]
    /\ UNCHANGED <<mainVars, circuits, now, circuitSpecVars, sse, lim>>

NextPrice == PriceRequest

SpecPrice == InitPrice /\ [][NextPrice]_vars

----------------------------------------------------------------------------
(* The circuit breaker under load: goroutines that run Router.tryProvider  *)
(* on a provider again and again while the clock advances. probe[p] keeps  *)
(* the history of p's circuit: the number of Record calls, the time of the *)
(* last Record that left a window of at least 10 samples with at least     *)
(* half of them failures (-1: none yet), and the Record calls since then.  *)

\* The window holds at least 10 samples of which at least 50% are failures
WindowQualifies(samples) ==
    /\ Len(samples) >= 10
    /\ 2 * Cardinality({i \in DOMAIN samples : ~samples[i]}) >= Len(samples)

\* Calls of tryProvider on p that have passed circuit.Allow and not yet
\* called circuit.Record
Pending(p) == Cardinality({c \in Callers : caller[c].pc # "idle" /\ caller[c].p = p})

\* tryProvider: circuit.Allow() returned true
CircuitAllow(c) ==
    /\ caller[c].pc = "idle"
    /\ \E p \in CircuitProviders :
         /\ probe[p].nrec + Pending(p) < MaxRecords
         /\ CircuitState_Allow(circuits[p], now)
         /\ caller' = [caller EXCEPT ![c] = [pc |-> "allowed", p |-> p,
                                             allowedAt |-> now]]
    /\ UNCHANGED <<mainVars, componentVars, circuits, now, probe>>

\* tryProvider: provider.Chat is called, the request is dispatched
CircuitDispatch(c) ==
    /\ caller[c].pc = "allowed"
    /\ caller' = [caller EXCEPT ![c].pc = "inflight"]
    /\ UNCHANGED <<mainVars, componentVars, circuits, now, probe>>

\* tryProvider: provider.Chat returned, circuit.Record(err == nil)
CircuitReturn(c) ==
    /\ caller[c].pc = "inflight"
    /\ \E ok \in BOOLEAN :
         LET p == caller[c].p
             after == CircuitState_Record(circuits[p], ok, now)
         IN /\ circuits' = [circuits EXCEPT ![p] = after]
            /\ probe' = [probe EXCEPT ![p] =
                  IF WindowQualifies(after.Samples)
                  THEN [nrec |-> @.nrec + 1, openedAt |-> now, sinceOpen |-> 0]
                  ELSE [@ EXCEPT !.nrec = @ + 1, !.sinceOpen = @ + 1]]
    /\ caller' = [caller EXCEPT ![c] = NewCaller]
    /\ UNCHANGED <<mainVars, componentVars, now>>

Tick ==
    /\ now < MaxTicks * TickStep
    /\ now' = now + TickStep
    /\ UNCHANGED <<mainVars, componentVars, circuits, caller, probe>>

NextCircuit ==
    \/ \E c \in Callers : CircuitAllow(c) \/ CircuitDispatch(c) \/ CircuitReturn(c)
    \/ Tick

SpecCircuit == Init /\ [][NextCircuit]_vars

----------------------------------------------------------------------------
(* Server.TenantTopup beside a chat completion of the same tenant. call is *)
(* the topup handler: its position, the amount of its payload and the      *)
(* balance it read.                                                        *)

TopupTenant == "t1"
TopupAmounts == {0, 100}

InitTopup ==
    /\ \E a \in TopupAmounts :
          call = [fn |-> "TenantTopup", pc |-> "decode", Amount |-> a, BalanceUSD |-> 0]
    /\ sse = NoStream
    /\ lim = NoLimiter
    /\ balance = InitBalance
    /\ totalSpent = [t \in Tenants |-> 0]
    /\ txs = <<>>
    /\ logs = <<>>
    /\ usage = [p \in Providers |-> [tokens |-> 0, cost |-> 0]]
    /\ conc = [t \in Tenants |-> AbsentKey]
    /\ qps = [t \in Tenants |-> 0]
    /\ health = [p \in Providers |-> "none"]
    /\ circuits = [p \in Providers |-> NewCircuit]
    /\ now = 0
    /\ req = [r \in Reqs |-> NewRequest]
    /\ caller = [c \in Callers |-> NewCaller]
    /\ probe = [p \in Providers |-> NewProbe]

topupFrame == <<conc, qps, health, circuits, now, req, circuitSpecVars, sse, lim>>

\* TenantTopup: the payload is decoded and checked, the tenant row is read
TopupLoad ==
    /\ call.fn = "TenantTopup"
    /\ call.pc = "decode"
    /\ call' = IF call.Amount <= 0
               THEN [call EXCEPT !.pc = "done"]
               ELSE [call EXCEPT !.pc = "update", !.BalanceUSD = balance[TopupTenant]]
    /\ UNCHANGED <<storeVars, topupFrame>>

\* TenantTopup: Store.UpdateTenantBalance(newBalance)
TopupUpdate ==
    /\ call.fn = "TenantTopup"
    /\ call.pc = "update"
    /\ balance' = [balance EXCEPT ![TopupTenant] = call.BalanceUSD + call.Amount]
    /\ call' = [call EXCEPT !.pc = "record"]
    /\ UNCHANGED <<totalSpent, txs, logs, usage, topupFrame>>

\* TenantTopup: Store.RecordTransaction("topup", amount, newBalance)
TopupRecord ==
    /\ call.fn = "TenantTopup"
    /\ call.pc = "record"
    /\ txs' = Append(txs, [req |-> "topup", tenant |-> TopupTenant, type |-> "topup",
                           amount |-> call.Amount,
                           balanceAfter |-> call.BalanceUSD + call.Amount,
                           provider |-> "", stored |-> balance[TopupTenant]])
    /\ call' = [call EXCEPT !.pc = "done"]
    /\ UNCHANGED <<balance, totalSpent, logs, usage, topupFrame>>

NextTopup ==
    \/ TopupLoad
    \/ TopupUpdate
    \/ TopupRecord
    \/ \E r \in DetailedReqs :
         \/ Auth(r)
         \/ Disconnect(r)
         \/ Admit(r)
         \/ AcquireIncr(r)
         \/ AcquireFinish(r)
         \/ Validate(r)
         \/ RouteBegin(r)
         \/ TryProvider(r)
         \/ Chat(r)
         \/ StreamChunk(r)
         \/ StreamEnd(r)
         \/ Account(r)
         \/ Release(r)

SpecTopup == InitTopup /\ [][NextTopup]_vars

----------------------------------------------------------------------------
(* anthropicProvider.Chat: the translation of the tools and tool_choice of *)
(* an OpenAI-format request into the body sent to the Anthropic API. A     *)
(* tools array is the list of its function names (<<>>: the field is       *)
(* absent); a tool_choice is absent, the JSON null, a string, or an object *)
(* with or without a function name.                                        *)

MaxTools == 2

ToolNames == {"f", "g"}
ToolArrays == UNION {[1..n -> ToolNames] : n \in 0..MaxTools}

ToolChoices ==
    {[kind |-> "absent", value |-> ""], [kind |-> "null", value |-> ""],
     [kind |-> "object", value |-> ""]}
    \cup [kind : {"string"}, value : {"none", "auto", "required", "other"}]
    \cup [kind : {"function"}, value : ToolNames]

NoToolChoice == [type |-> "", name |-> ""]
NoPayload == [fields |-> {}, tools |-> <<>>, tool_choice |-> NoToolChoice]

\* The payload's tools and tool_choice fields
anthropicToolPayload(tools, tc) ==
    LET withTools == IF tools # <<>>
                     THEN [NoPayload EXCEPT !.fields = {"tools"}, !.tools = tools]
                     ELSE NoPayload
        choice == CASE tc.kind = "string" /\ tc.value = "auto" ->
                           [type |-> "auto", name |-> ""]
                    [] tc.kind = "string" /\ tc.value = "required" ->
                           [type |-> "any", name |-> ""]
                    [] tc.kind = "function" ->
                           [type |-> "tool", name |-> tc.value]
                    [] OTHER -> NoToolChoice
    IN IF choice = NoToolChoice THEN withTools
       ELSE [withTools EXCEPT !.fields = @ \cup {"tool_choice"},
                              !.tool_choice = choice]

InitTranslate ==
    /\ call \in [fn : {"anthropic"}, tools : ToolArrays, toolChoice : ToolChoices,
                 sent : {FALSE}, payload : {NoPayload}]
    /\ sse = NoStream
    /\ lim = NoLimiter
    /\ balance = InitBalance
    /\ totalSpent = [t \in Tenants |-> 0]
    /\ txs = <<>>
    /\ logs = <<>>
    /\ usage = [p \in Providers |-> [tokens |-> 0, cost |-> 0]]
    /\ conc = [t \in Tenants |-> AbsentKey]
    /\ qps = [t \in Tenants |-> 0]
    /\ health = [p \in Providers |-> "none"]
    /\ circuits = [p \in Providers |-> NewCircuit]
    /\ now = 0
    /\ req = [r \in Reqs |-> NewRequest]
    /\ caller = [c \in Callers |-> NewCaller]
    /\ probe = [p \in Providers |-> NewProbe]

\* anthropicProvider.Chat builds the payload and posts it
Translate ==
    /\ call.fn = "anthropic"
    /\ ~call.sent
    /\ call' = [call EXCEPT !.sent = TRUE,
                            !.payload = anthropicToolPayload(call.tools, call.toolChoice)]
    /\ UNCHANGED <<mainVars, circuits, now, circuitSpecVars, sse, lim>>

NextTranslate == Translate

SpecTranslate == InitTranslate /\ [][NextTranslate]_vars

----------------------------------------------------------------------------
(* The sample window of one circuit: goroutines whose provider.Chat has    *)
(* returned call Record, one at a time under the circuit's mutex.          *)
(* call.outcomes is the list of all outcomes in the order of the Record    *)
(* calls.                                                                  *)

MaxWindowRecords == 22     \* Record calls on the circuit
MaxWindowFailures == 2     \* failures among them

InitWindow ==
    /\ call = [fn |-> "Record", outcomes |-> <<>>]
    /\ sse = NoStream
    /\ lim = NoLimiter
    /\ balance = InitBalance
    /\ totalSpent = [t \in Tenants |-> 0]
    /\ txs = <<>>
    /\ logs = <<>>
    /\ usage = [p \in Providers |-> [tokens |-> 0, cost |-> 0]]
    /\ conc = [t \in Tenants |-> AbsentKey]
    /\ qps = [t \in Tenants |-> 0]
    /\ health = [p \in Providers |-> "none"]
    /\ circuits = [p \in Providers |-> NewCircuit]
    /\ now = 0
    /\ req = [r \in Reqs |-> NewRequest]
    /\ caller = [c \in Callers |-> NewCaller]
    /\ probe = [p \in Providers |-> NewProbe]

\* tryProvider: provider.Chat is called
WindowCall(c) ==
    /\ caller[c].pc = "idle"
    /\ Len(call.outcomes) + Pending(caller[c].p) < MaxWindowRecords
    /\ caller' = [caller EXCEPT ![c].pc = "inflight"]
    /\ UNCHANGED <<mainVars, circuits, now, probe, sse, lim, call>>

\* tryProvider: provider.Chat returned, circuit.Record(err == nil)
WindowRecord(c) ==
    /\ caller[c].pc = "inflight"
    /\ \E ok \in BOOLEAN :
         /\ ok \/ CountFalse(call.outcomes) < MaxWindowFailures
         /\ circuits' = [circuits EXCEPT ![caller[c].p] =
                            CircuitState_Record(@, ok, now)]
         /\ call' = [call EXCEPT !.outcomes = Append(@, ok)]
    /\ caller' = [caller EXCEPT ![c] = NewCaller]
    /\ UNCHANGED <<mainVars, now, probe, sse, lim>>

NextWindow == \E c \in Callers : WindowCall(c) \/ WindowRecord(c)

SpecWindow == InitWindow /\ [][NextWindow]_vars

----------------------------------------------------------------------------
(* The adapters' stream handlers, one scanner line at a time. A line of    *)
(* the upstream body is "data" (a chunk with text), "stop" (the end        *)
(* marker of the protocol: data: [DONE] for OpenAI, message_stop for       *)
(* Anthropic) or "skip" (blank, not a data line, not parsable, no text).   *)
(* Gemini has no end marker. The dummy adapter reads no upstream: its body *)
(* is its own list of chunks. frames are the events given to the sender.   *)

MaxLines == 3

Handlers == {"dummy", "openai", "anthropic", "gemini"}
LineKinds == {"data", "stop", "skip"}

\* chatDummy: the chunks of the dummy response
DummyChunks == <<"data", "data", "data">>

UpstreamBodies(h) ==
    IF h = "dummy" THEN {DummyChunks}
    ELSE UNION {[1..n -> IF h = "gemini" THEN LineKinds \ {"stop"} ELSE LineKinds] :
                   n \in 0..MaxLines}

InitStream ==
    /\ \E h \in Handlers : \E b \in UpstreamBodies(h) :
          sse = [NoStream EXCEPT !.handler = h, !.body = b]
    /\ lim = NoLimiter
    /\ call = NoCall
    /\ balance = InitBalance
    /\ totalSpent = [t \in Tenants |-> 0]
    /\ txs = <<>>
    /\ logs = <<>>
    /\ usage = [p \in Providers |-> [tokens |-> 0, cost |-> 0]]
    /\ conc = [t \in Tenants |-> AbsentKey]
    /\ qps = [t \in Tenants |-> 0]
    /\ health = [p \in Providers |-> "none"]
    /\ circuits = [p \in Providers |-> NewCircuit]
    /\ now = 0
    /\ req = [r \in Reqs |-> NewRequest]
    /\ caller = [c \in Callers |-> NewCaller]
    /\ probe = [p \in Providers |-> NewProbe]

\* The handler sends a data chunk: the sender's write succeeds or fails, and
\* a failure makes the handler return the error
SendData(st) ==
    {[st EXCEPT !.pos = @ + 1, !.frames = Append(@, "data")],
     [st EXCEPT !.pos = @ + 1, !.returned = TRUE, !.err = TRUE]}

\* The handler sends [DONE]: the sender reports no error for it
SendDone(st) == [st EXCEPT !.frames = Append(@, "[DONE]")]

\* One iteration of the scanner loop
StreamLine ==
    /\ ~sse.returned
    /\ sse.pos < Len(sse.body)
    /\ LET line == sse.body[sse.pos + 1]
           next == [sse EXCEPT !.pos = @ + 1]
       IN CASE line = "data" -> sse' \in SendData(sse)
            [] line = "stop" /\ sse.handler = "openai" ->
                   sse' = [SendDone(next) EXCEPT !.returned = TRUE]
            [] line = "stop" /\ sse.handler = "anthropic" ->
                   sse' = SendDone(next)
            [] OTHER -> sse' = next
    /\ UNCHANGED <<mainVars, circuits, now, circuitSpecVars, lim, call>>

\* The upstream body has ended: the code after the loop
StreamEOF ==
    /\ ~sse.returned
    /\ sse.pos = Len(sse.body)
    /\ sse' = [(IF sse.handler \in {"gemini", "dummy"} THEN SendDone(sse) ELSE sse)
                  EXCEPT !.returned = TRUE]
    /\ UNCHANGED <<mainVars, circuits, now, circuitSpecVars, lim, call>>

NextStream == StreamLine \/ StreamEOF

SpecStream == InitStream /\ [][NextStream]_vars

----------------------------------------------------------------------------
(* Limiter.Acquire and Limiter.Release under load: more clients of one     *)
(* tenant than the limit, each acquiring once and releasing, while the     *)
(* TTL of the counter key may run out.                                     *)

ExtraClients == 1

LimClients == 1..(Conc + ExtraClients)
LimTenant == "t1"

InitAcquire ==
    /\ lim = [NoLimiter EXCEPT !.clients =
                 [c \in LimClients |-> [pc |-> "idle", val |-> 0]]]
    /\ sse = NoStream
    /\ call = NoCall
    /\ balance = InitBalance
    /\ totalSpent = [t \in Tenants |-> 0]
    /\ txs = <<>>
    /\ logs = <<>>
    /\ usage = [p \in Providers |-> [tokens |-> 0, cost |-> 0]]
    /\ conc = [t \in Tenants |-> AbsentKey]
    /\ qps = [t \in Tenants |-> 0]
    /\ health = [p \in Providers |-> "none"]
    /\ circuits = [p \in Providers |-> NewCircuit]
    /\ now = 0
    /\ req = [r \in Reqs |-> NewRequest]
    /\ caller = [c \in Callers |-> NewCaller]
    /\ probe = [p \in Providers |-> NewProbe]

acquireFrame == <<storeVars, qps, health, circuits, now, req, circuitSpecVars, sse, call>>

\* Limiter.Acquire: the INCR
ClientIncr(c) ==
    /\ lim.clients[c].pc = "idle"
    /\ LET k == RedisIncr(conc[LimTenant]) IN
         /\ conc' = [conc EXCEPT ![LimTenant] = k]
         /\ lim' = [lim EXCEPT !.clients[c] =
                IF k.val = 1 \/ k.val > Conc
                THEN [pc |-> "incremented", val |-> k.val]
                ELSE [pc |-> "holding", val |-> 0]]
    /\ UNCHANGED acquireFrame

\* Limiter.Acquire: the EXPIRE after the first increment, the DECR and the
\* refusal of an increment over the limit
ClientFinish(c) ==
    /\ lim.clients[c].pc = "incremented"
    /\ LET val == lim.clients[c].val
           k1 == IF val = 1 THEN RedisExpire(conc[LimTenant]) ELSE conc[LimTenant]
           k2 == IF val > Conc THEN RedisDecr(k1) ELSE k1
       IN /\ conc' = [conc EXCEPT ![LimTenant] = k2]
          /\ lim' = [lim EXCEPT !.clients[c] =
                 [pc |-> IF val > Conc THEN "rejected" ELSE "holding", val |-> 0]]
    /\ UNCHANGED acquireFrame

\* Limiter.Release
ClientRelease(c) ==
    /\ lim.clients[c].pc = "holding"
    /\ conc' = [conc EXCEPT ![LimTenant] = RedisDecr(@)]
    /\ lim' = [lim EXCEPT !.clients[c].pc = "released"]
    /\ UNCHANGED acquireFrame

NextAcquire ==
    \/ \E c \in LimClients : ClientIncr(c) \/ ClientFinish(c) \/ ClientRelease(c)
    \/ \E t \in Tenants : ExpireConc(t)

SpecAcquire == InitAcquire /\ [][NextAcquire]_vars

\* The clients that hold a concurrency token: Acquire returned true and
\* Release has not run
Holders == {c \in DOMAIN lim.clients : lim.clients[c].pc = "holding"}

----------------------------------------------------------------------------
(* Limiter.Allow under load: calls of two tenants over consecutive         *)
(* seconds. A call reads the clock to name its key, qps:<tenant>:<second>, *)
(* and then runs INCR and EXPIRE on it in one transaction, which may       *)
(* happen in the next second but happens before the 2 s TTL of the key     *)
(* runs out. lim.stamped counts the calls that have named their key and    *)
(* not yet run the transaction, lim.keys holds the counters, lim.passed    *)
(* counts the calls that Allow let pass, each per tenant and key second.   *)

MaxSeconds == 1
ExtraCalls == 1
MaxInFlight == 2    \* calls inside Allow at the same time

RateTenants == {"t1", "t2"}
Seconds == 0..MaxSeconds

\* The calls a tenant makes in one second
RateCap(t) == IF t = "t1" THEN QPS + ExtraCalls ELSE ExtraCalls

\* Limiter.Allow: the verdict on the counter value INCR returned
VerdictBelowLimit(val) == val < QPS

Limiter_AllowVerdict(val) == ~(val > QPS)

InitAllow ==
    /\ lim = [NoLimiter EXCEPT
                 !.stamped = [t \in RateTenants |-> [s \in Seconds |-> 0]],
                 !.keys = [t \in RateTenants |-> [s \in Seconds |-> 0]],
                 !.passed = [t \in RateTenants |-> [s \in Seconds |-> 0]]]
    /\ sse = NoStream
    /\ call = NoCall
    /\ balance = InitBalance
    /\ totalSpent = [t \in Tenants |-> 0]
    /\ txs = <<>>
    /\ logs = <<>>
    /\ usage = [p \in Providers |-> [tokens |-> 0, cost |-> 0]]
    /\ conc = [t \in Tenants |-> AbsentKey]
    /\ qps = [t \in Tenants |-> 0]
    /\ health = [p \in Providers |-> "none"]
    /\ circuits = [p \in Providers |-> NewCircuit]
    /\ now = 0
    /\ req = [r \in Reqs |-> NewRequest]
    /\ caller = [c \in Callers |-> NewCaller]
    /\ probe = [p \in Providers |-> NewProbe]

allowFrame == <<storeVars, conc, qps, health, circuits, req, circuitSpecVars, sse, call>>

\* The calls that have named their key and not yet run the transaction
RECURSIVE SumOver(_, _)
SumOver(f, S) ==
    IF S = {} THEN 0
    ELSE LET x == CHOOSE y \in S : TRUE IN f[x] + SumOver(f, S \ {x})

InFlight ==
    SumOver([ts \in RateTenants \X Seconds |-> lim.stamped[ts[1]][ts[2]]],
            RateTenants \X Seconds)

\* Limiter.Allow: the key is named after the current second
AllowStamp(t) ==
    /\ InFlight < MaxInFlight
    /\ lim.stamped[t][now] + lim.keys[t][now] < RateCap(t)
    /\ lim' = [lim EXCEPT !.stamped[t][now] = @ + 1]
    /\ UNCHANGED <<allowFrame, now>>

\* Limiter.Allow: the transaction INCR, EXPIRE on the key, and the verdict
AllowExec(t, s) ==
    /\ lim.stamped[t][s] > 0
    /\ LET val == lim.keys[t][s] + 1 IN
         lim' = [lim EXCEPT !.stamped[t][s] = @ - 1,
                            !.keys[t][s] = val,
                            !.passed[t][s] =
                                IF Limiter_AllowVerdict(val) THEN @ + 1 ELSE @]
    /\ UNCHANGED <<allowFrame, now>>

\* The next second begins
RateTick ==
    /\ now < MaxSeconds
    /\ \A t \in RateTenants : \A s \in Seconds : s < now => lim.stamped[t][s] = 0
    /\ now' = now + 1
    /\ UNCHANGED <<allowFrame, lim>>

NextAllow ==
    \/ \E t \in RateTenants : AllowStamp(t)
    \/ \E t \in RateTenants : \E s \in Seconds : AllowExec(t, s)
    \/ RateTick

SpecAllow == InitAllow /\ [][NextAllow]_vars

----------------------------------------------------------------------------
(* Properties of the request path (Spec) *)

RECURSIVE SumAmounts(_, _)
SumAmounts(rows, t) ==
    IF rows = <<>> THEN 0
    ELSE (IF Head(rows).tenant = t THEN Head(rows).amount ELSE 0)
         + SumAmounts(Tail(rows), t)

\* C1: a request that acquired a concurrency token has, when its handler
\* has exited, made exactly one decrement of the tenant's counter take
\* effect, on every exit path, client disconnect included.
C1_AcquiredTokenReleasedOnce ==
    \A r \in Reqs :
        (req[r].pc = "done" /\ req[r].acquired) => req[r].decrs = 1

\* C2: when all requests have finished, the stored balance of a tenant is
\* its initial balance minus the sum of the costs charged to it.
C2_BalanceIsInitialMinusCosts ==
    (\A r \in Reqs : req[r].pc = "done")
        => \A t \in Tenants : balance[t] = InitBalance[t] + SumAmounts(txs, t)

\* C3: every charge transaction carries amount -cost and a balance_after
\* equal to the balance stored immediately before the debit minus the
\* cost, and a request has at most one charge and one request-log row.
C3_ChargeRecordsPreviousBalanceMinusCost ==
    /\ \A i \in DOMAIN txs :
          /\ txs[i].type = "charge"
          /\ txs[i].amount < 0
          /\ txs[i].balanceAfter = txs[i].stored + txs[i].amount
    /\ \A i, j \in DOMAIN txs : txs[i].req = txs[j].req => i = j
    /\ \A i, j \in DOMAIN logs : logs[i].req = logs[j].req => i = j

\* C4: a request answered 200 asked for a model in the allow-list of its
\* API key, or the allow-list is empty, whatever the key lookup returned.
C4_SuccessOnlyForAllowedModel ==
    \A r \in Reqs :
        (req[r].pc = "account" /\ req[r].status = 200)
            => \/ AllowedModels[req[r].key] = {}
               \/ req[r].model \in AllowedModels[req[r].key]

\* C5: a request with a non-empty image_url part is never dispatched to
\* the adapter of a provider without vision support, on the catalog path,
\* the rule's primary or the rule's secondary.
C5_ImageNeverDispatchedWithoutVision ==
    \A r \in Reqs :
        requestHasImage(req[r].content)
            => \A i \in DOMAIN req[r].dispatched :
                  ProviderRow[req[r].dispatched[i]].SupportsVision

\* An image request was dispatched, every attempt failed, and the rule's
\* secondary, a provider without vision, was refused
C5_Witness ==
    \E r \in Reqs :
        /\ req[r].pc = "account"
        /\ requestHasImage(req[r].content)
        /\ ~req[r].disconnected
        /\ req[r].routeErr
        /\ req[r].dispatched # <<>>
        /\ ~ProviderRow[RoutingRules[req[r].tenant]["vision"].SecondaryProviderID].SupportsVision

\* C9: a request answered 200 after earlier candidates were dispatched and
\* failed upstream has fallback_used = true.
C9_FallbackUsedAfterFailedCandidates ==
    \A r \in Reqs :
        (/\ req[r].pc = "account"
         /\ req[r].status = 200
         /\ ~req[r].disconnected
         /\ Len(req[r].dispatched) >= 2)
            => req[r].fallbackUsed

\* C10: after the stream sender returned an error during a candidate's
\* stream, no further candidate is dispatched for the request.
C10_NoCandidateAfterSendError ==
    \A r \in Reqs :
        req[r].sendErrAt > 0 => Len(req[r].dispatched) = req[r].sendErrAt

----------------------------------------------------------------------------
(* Properties of the circuit breaker (SpecCircuit) *)

\* C6: once the window of a provider holds at least 10 samples with at
\* least 50% failures, no request is dispatched to its adapter within 30 s
\* of the Record that found it so, whichever way the callers interleave.
C6_NoDispatchWhileOpen ==
    [][\A c \in Callers :
          (caller[c].pc = "allowed" /\ caller'[c].pc = "inflight")
              => \/ probe[caller[c].p].openedAt < 0
                 \/ now >= probe[caller[c].p].openedAt + 30]_vars

\* C7: a Record sets open-until to now + 30 s exactly when the window it
\* leaves holds at least 10 samples with at least half of them failures,
\* and leaves open-until alone otherwise; before the 10th Record the
\* circuit is not open.
C7_RecordOpensExactlyAtThreshold ==
    /\ [][\A p \in CircuitProviders :
             probe'[p].nrec = probe[p].nrec + 1
                 => IF WindowQualifies(circuits'[p].Samples)
                    THEN circuits'[p].OpenUntil = now + 30
                    ELSE circuits'[p].OpenUntil = circuits[p].OpenUntil]_vars
    /\ [](\A p \in CircuitProviders :
             probe[p].nrec < 10 => CircuitState_Allow(circuits[p], now))

\* A Record has just opened the circuit on a window of exactly 10 samples,
\* exactly half of them failures
C7_Witness ==
    \E p \in CircuitProviders :
        /\ probe[p].nrec = 10
        /\ Len(circuits[p].Samples) = 10
        /\ CountFalse(circuits[p].Samples) = 5
        /\ probe[p].openedAt = now
        /\ circuits[p].OpenUntil = now + 30
        /\ ~CircuitState_Allow(circuits[p], now)

\* C8: the first request admitted after the open-until time has elapsed
\* decides the state: when it succeeds the circuit is closed afterwards.
C8_SuccessAfterCooldownCloses ==
    [][\A c \in Callers :
          LET p == caller[c].p IN
          (/\ caller[c].pc = "inflight"
           /\ caller'[c].pc = "idle"
           /\ probe[p].openedAt >= 0
           /\ probe[p].sinceOpen = 0
           /\ caller[c].allowedAt >= probe[p].openedAt + 30
           /\ circuits'[p].Samples[Len(circuits'[p].Samples)])
              => CircuitState_Allow(circuits'[p], now)]_vars

----------------------------------------------------------------------------
(* Properties of one request in detail (SpecRequest) *)

C14_BalanceCheckedBeforeAllowList ==
    [][\A r \in DetailedReqs :
          (/\ req[r].pc = "validate"
           /\ req'[r].pc = "release"
           /\ req[r].BalanceUSD <= 0)
              => req'[r].status # 403]_vars

\* C17: a request of a tenant whose spend limit is set and whose total
\* spent, as read with the tenant row, has reached the limit is not
\* dispatched to any provider.
C17_NoDispatchOverSpendLimit ==
    \A r \in DetailedReqs :
        (/\ req[r].tenant \in Tenants
         /\ TenantSpendLimit[req[r].tenant] > 0
         /\ req[r].TotalSpentUSD >= TenantSpendLimit[req[r].tenant])
            => req[r].dispatched = <<>>

\* C18: a request for a model with a catalog entry is dispatched only to
\* providers of the catalog's family type, never to the providers of the
\* tenant's routing rule.
C18_CatalogModelStaysInFamily ==
    \A r \in DetailedReqs :
        req[r].model \in DOMAIN ModelCatalog
            => \A i \in DOMAIN req[r].dispatched :
                  ProviderRow[req[r].dispatched[i]].Type = ModelCatalog[req[r].model]

\* C19: a request that carries the allow-fallbacks header with the value
\* false is dispatched to at most one provider.
C19_NoFallbackWhenDisabled ==
    \A r \in DetailedReqs :
        req[r].allowFallbacks = "false" => Len(req[r].dispatched) <= 1

\* C20: the accounting step of a request whose routing failed appends no
\* charge transaction, leaves the balance, total_spent and usage_daily rows
\* as they were, and the request-log row it appends has status 502 and cost 0.
C20_FailedRouteCostsNothing ==
    [][\A r \in DetailedReqs :
          (req[r].pc = "account" /\ req[r].routeErr /\ req'[r].pc = "release")
              => /\ txs' = txs
                 /\ balance' = balance
                 /\ totalSpent' = totalSpent
                 /\ usage' = usage
                 /\ \/ logs' = logs
                    \/ /\ Len(logs') = Len(logs) + 1
                       /\ logs'[Len(logs')].status = 502
                       /\ logs'[Len(logs')].cost = 0]_vars

\* A failed request was logged after at least one provider was dispatched to
C20_Witness ==
    \E i \in DOMAIN logs :
        /\ logs[i].req \in DetailedReqs
        /\ logs[i].status = 502
        /\ logs[i].cost = 0
        /\ \E r \in DetailedReqs : req[r].pc = "release" /\ req[r].acquired

\* C22: when the handler of a request of a connected client has exited,
\* whether it rejected the request, routing failed or it succeeded, the
\* request log holds exactly one row of that request.
C22_OneLogRowPerRequest ==
    \A r \in DetailedReqs :
        (req[r].pc = "release" /\ ~req[r].disconnected)
            => Cardinality({i \in DOMAIN logs : logs[i].req = r}) = 1

\* C24: the handler's step on a request of a suspended tenant answers 403
\* and returns; it changes neither the tenant's QPS bucket nor its
\* concurrency counter, dispatches to no provider, records no circuit
\* sample and no provider health, and writes nothing to the Store.
C24_SuspendedRejectedWithoutEffect ==
    [][\A r \in DetailedReqs :
          (/\ req[r].pc = "admit"
           /\ TenantSuspended[req[r].tenant]
           /\ req'[r].pc # "admit")
              => /\ req'[r].pc = "done"
                 /\ req'[r].status = 403
                 /\ req'[r].dispatched = <<>>
                 /\ ~req'[r].acquired
                 /\ UNCHANGED <<qps, conc, circuits, health, storeVars>>]_vars

\* The request of a suspended tenant has been answered 403
C24_Witness ==
    \E r \in DetailedReqs :
        /\ req[r].pc = "done"
        /\ req[r].status = 403
        /\ \A t \in Tenants : qps[t] = 0 /\ ~conc[t].present
        /\ logs = <<>>

\* C25: once a data chunk of a streamed request has been written to the
\* client, no other provider is dispatched to for that request.
C25_NoDispatchAfterPartialOutput ==
    \A r \in DetailedReqs :
        req[r].dataAt > 0 => Len(req[r].dispatched) = req[r].dataAt

\* C29: the step in which the stream sender returns an error, because the
\* client has disconnected, adds no sample to a circuit window, changes no
\* circuit's open-until time and sets no provider_health key.
C29_AbortedStreamNotCounted ==
    [][\A r \in DetailedReqs :
          (req[r].pc = "stream" /\ req[r].sendErrAt = 0 /\ req'[r].sendErrAt > 0)
              => circuits' = circuits /\ health' = health]_vars

\* C11: after a candidate's upstream answered with an HTTP 4xx status, no
\* later candidate is dispatched for the request.
C11_NoCandidateAfterClientError ==
    \A r \in DetailedReqs :
        req[r].clientErrAt > 0 => Len(req[r].dispatched) = req[r].clientErrAt

----------------------------------------------------------------------------
(* Properties of the stream handlers (SpecStream) *)

\* C12: when a stream handler returns without error, the frames given to
\* the sender end with [DONE], and [DONE] occurs exactly once.
C12_StreamEndsWithOneDone ==
    (sse.returned /\ ~sse.err)
        => /\ sse.frames # <<>>
           /\ sse.frames[Len(sse.frames)] = "[DONE]"
           /\ Cardinality({i \in DOMAIN sse.frames : sse.frames[i] = "[DONE]"}) = 1

----------------------------------------------------------------------------
(* Properties of the Limiter (SpecAcquire) *)

\* C15: at every moment at most Conc requests of the tenant hold a
\* concurrency token, also when the TTL of the counter key runs out.
C15_HoldersWithinLimit == Cardinality(Holders) <= Conc

\* C28: the tenant's concurrency counter is never negative, and it is zero
\* or absent whenever no request is inside Acquire or between Acquire and
\* Release, also when the counter key expired while a request was in flight.
C28_CounterNeverNegative ==
    /\ conc[LimTenant].val >= 0
    /\ (\A c \in DOMAIN lim.clients :
            lim.clients[c].pc \notin {"incremented", "holding"})
          => conc[LimTenant].val = 0

----------------------------------------------------------------------------
(* Properties of the rate limit (SpecAllow) *)

----------------------------------------------------------------------------
(* Properties of sequential requests (SpecSequential) *)

----------------------------------------------------------------------------
(* Properties of the cost computation (SpecPrice) *)

\* C23: the cost of a request with tokens is tokens times the Store's price
\* for the model when the Store has one and its query succeeds, and tokens
\* times 0.002 USD per 1K for every model the Store has no price for.
C23_StorePriceElseFixedFallback ==
    (call.fn = "cost" /\ call.cost >= 0 /\ call.tokens > 0)
        => /\ (call.model \in DOMAIN ModelPricing /\ ~call.err)
                  => call.cost = ModelPricing[call.model] * call.tokens
           /\ call.model \notin DOMAIN ModelPricing
                  => call.cost = 20 * call.tokens

----------------------------------------------------------------------------
(* Properties of the sample window (SpecWindow) *)

\* C26: after n Record calls on a circuit, made by concurrent requests, its
\* window holds min(n, 20) outcomes, and they are the last min(n, 20)
\* outcomes recorded, in recording order.
C26_WindowIsLastTwentyOutcomes ==
    \A p \in CircuitProviders :
        LET h == call.outcomes
            w == circuits[p].Samples
        IN /\ Len(w) <= 20
           /\ Len(w) = (IF Len(h) < 20 THEN Len(h) ELSE 20)
           /\ \A i \in 1..Len(w) : w[i] = h[Len(h) - Len(w) + i]

\* 22 outcomes were recorded: the first, a failure, has left the window,
\* and the last, a failure, is its newest sample
C26_Witness ==
    \E p \in CircuitProviders :
        /\ Len(call.outcomes) = 22
        /\ ~call.outcomes[1]
        /\ ~call.outcomes[22]
        /\ Len(circuits[p].Samples) = 20
        /\ CountFalse(circuits[p].Samples) = 1
        /\ ~circuits[p].Samples[20]

----------------------------------------------------------------------------
(* Properties of the Anthropic request translation (SpecTranslate) *)

\* C27: for a request with a non-empty tools array, tool_choice "none"
\* gives a body without a tools field, "auto" gives tool_choice {type:
\* auto}, "required" gives {type: any}, and {function: {name: X}} gives
\* {type: tool, name: X}.
C27_ToolChoiceTranslation ==
    (call.fn = "anthropic" /\ call.sent /\ call.tools # <<>>)
        => LET tc == call.toolChoice
               body == call.payload
           IN /\ (tc.kind = "string" /\ tc.value = "none")
                     => "tools" \notin body.fields
              /\ (tc.kind = "string" /\ tc.value = "auto")
                     => /\ "tool_choice" \in body.fields
                        /\ body.tool_choice = [type |-> "auto", name |-> ""]
              /\ (tc.kind = "string" /\ tc.value = "required")
                     => /\ "tool_choice" \in body.fields
                        /\ body.tool_choice = [type |-> "any", name |-> ""]
              /\ tc.kind = "function"
                     => /\ "tool_choice" \in body.fields
                        /\ body.tool_choice = [type |-> "tool", name |-> tc.value]

----------------------------------------------------------------------------
(* Properties of the balance ledger (SpecTopup) *)

\* C30: when a topup and a chat completion of the same tenant have both
\* finished, in whatever order their steps interleaved, the stored balance
\* is the initial balance plus the amounts of the tenant's transactions
\* (the topup's amount, minus the cost charged).
C30_LedgerConservedUnderTopup ==
    (call.fn = "TenantTopup" /\ call.pc = "done"
        /\ \A r \in DetailedReqs : req[r].pc = "done")
        => balance[TopupTenant] = InitBalance[TopupTenant] + SumAmounts(txs, TopupTenant)

====
